---- MODULE Spec2Model ----
(***************************************************************************)
(* Model of ChatEditWorkflowService (src/chat-edit-workflow.service.ts):   *)
(* the chat-embedded edit workflow.  The service state is the value of     *)
(* stateSubject plus the private fields; every asynchronous handler is     *)
(* split at its await points, the part before an await and the part after  *)
(* it being separate actions, so that other calls can run in between.      *)
(*                                                                         *)
(* out is the list of everything the last step pushed to the service's     *)
(* subjects, in order: state$ values, message$ values, workflowStarted$,   *)
(* workflowCompleted$ and isGeneratingFinal$ values.  op names the last    *)
(* step and its input.  The typed editor selection and the highlighting    *)
(* of ParagraphEditsConsolidatedComponent are modelled on sequences of     *)
(* characters, each under a specification of its own.                      *)
(***************************************************************************)
EXTENDS Integers, Sequences, FiniteSets, TLC

VARIABLES state, threadId, isGeneratingFinal,
          pendingIntent, pendingExtract, streams, pendingFinal, pendingNext,
          op, out

vars == <<state, threadId, isGeneratingFinal,
          pendingIntent, pendingExtract, streams, pendingFinal, pendingNext, op, out>>

svcVars == <<state, threadId, isGeneratingFinal,
             pendingIntent, pendingExtract, streams, pendingFinal, pendingNext>>

----------------------------------------------------------------------------
(* Bounds of the model *)

MaxPending == 1

MaxLen == 5

MaxText == 3

MaxFeedback == 2

----------------------------------------------------------------------------
(* Values *)

Null == "null"

Undefined == "undefined"

EditWorkflowStep == {"idle", "awaiting_editors", "awaiting_content", "processing", "awaiting_approval"}

BrandAlignment == "brand-alignment"

editorOptions == <<"development", "content", "line", "copy", "brand-alignment">>

ConfidenceThreshold == 70

Files == {"a.docx"}

Contents == {"", " ", "doc"}

Includes(seq, x) == \E i \in 1..Len(seq) : seq[i] = x

RECURSIVE filter(_, _)
filter(seq, keep) ==
  IF seq = <<>> THEN <<>>
  ELSE IF Head(seq) \in keep THEN <<Head(seq)>> \o filter(Tail(seq), keep)
       ELSE filter(Tail(seq), keep)

SeqRange(seq) == {seq[i] : i \in 1..Len(seq)}

trim(s) == IF s = " " THEN "" ELSE s

withBrand(ids) == IF Includes(ids, BrandAlignment) THEN ids ELSE Append(ids, BrandAlignment)

----------------------------------------------------------------------------
(* The service state and what it emits *)

getDefaultState ==
  [step |-> "idle",
   uploadedFile |-> Null,
   selectedEditors |-> <<BrandAlignment>>,
   originalContent |-> "",
   paragraphEdits |-> <<>>]

StateEvt(s) == [kind |-> "state", type |-> s.step, text |-> ""]

Msg(type, text) == [kind |-> "message", type |-> type, text |-> text]

WorkflowStartedEvt == [kind |-> "workflowStarted", type |-> "", text |-> ""]

WorkflowCompletedEvt == [kind |-> "workflowCompleted", type |-> "", text |-> ""]

GeneratingEvt(b) == [kind |-> "isGeneratingFinal", type |-> IF b THEN "true" ELSE "false", text |-> ""]

World ==
  [state |-> state, threadId |-> threadId, isGeneratingFinal |-> isGeneratingFinal,
   pendingIntent |-> pendingIntent, pendingExtract |-> pendingExtract,
   streams |-> streams, pendingFinal |-> pendingFinal, pendingNext |-> pendingNext,
   out |-> <<>>]

Commit(w, o) ==
  /\ state' = w.state
  /\ threadId' = w.threadId
  /\ isGeneratingFinal' = w.isGeneratingFinal
  /\ pendingIntent' = w.pendingIntent
  /\ pendingExtract' = w.pendingExtract
  /\ streams' = w.streams
  /\ pendingFinal' = w.pendingFinal
  /\ pendingNext' = w.pendingNext
  /\ out' = w.out
  /\ op' = o

updateState(w, newState) ==
  [w EXCEPT !.state = newState, !.out = Append(@, StateEvt(newState))]

emit(w, type, text) == [w EXCEPT !.out = Append(@, Msg(type, text))]

completeWorkflow(w) ==
  LET w1 == [w EXCEPT !.threadId = Null]
      w2 == updateState(w1, getDefaultState)
  IN  [w2 EXCEPT !.out = Append(@, WorkflowCompletedEvt)]

cancelWorkflow_noProcessingGuard(w) ==
  IF w.state.step = "idle" THEN w
  ELSE LET w1 == updateState(w, getDefaultState)
           w2 == [w1 EXCEPT !.out = Append(@, WorkflowCompletedEvt)]
       IN  emit(w2, "prompt", "cancelled")

cancelWorkflow_noCompletedEvent(w) ==
  IF w.state.step = "idle" THEN w
  ELSE IF w.state.step = "processing" THEN w
  ELSE emit(updateState(w, getDefaultState), "prompt", "cancelled")

cancelWorkflow(w) ==
  IF w.state.step = "idle" THEN w
  ELSE IF w.state.step = "processing" THEN w
  ELSE LET w1 == updateState(w, getDefaultState)
           w2 == [w1 EXCEPT !.out = Append(@, WorkflowCompletedEvt)]
       IN  emit(w2, "prompt", "cancelled")

----------------------------------------------------------------------------
(* Starting a workflow *)

beginWorkflow(w) ==
  LET w1 == updateState(w, [getDefaultState EXCEPT !.step = "awaiting_editors"])
      w2 == [w1 EXCEPT !.out = Append(@, WorkflowStartedEvt)]
  IN  emit(w2, "prompt", "select_editors")

beginWorkflowWithEditors_notValidated(w, editorIds) ==
  IF Len(editorIds) = 0 THEN beginWorkflow(w)
  ELSE LET w1 == updateState(w, [getDefaultState EXCEPT
                                   !.step = "awaiting_content",
                                   !.selectedEditors = withBrand(editorIds)])
           w2 == [w1 EXCEPT !.out = Append(@, WorkflowStartedEvt)]
       IN  emit(w2, "prompt", "upload_document")

beginWorkflowWithEditors(w, editorIds) ==
  IF Len(editorIds) = 0 THEN beginWorkflow(w)
  ELSE LET validatedEditors == filter(editorIds, SeqRange(editorOptions))
       IN  IF Len(validatedEditors) = 0 THEN beginWorkflow(w)
           ELSE LET editorsWithBrand == withBrand(validatedEditors)
                    w1 == updateState(w, [getDefaultState EXCEPT
                                            !.step = "awaiting_content",
                                            !.selectedEditors = editorsWithBrand])
                    w2 == [w1 EXCEPT !.out = Append(@, WorkflowStartedEvt)]
                IN  emit(w2, "prompt", "upload_document")

createNoEditorsErrorMessage(w) == emit(w, "prompt", "select_at_least_one")

proceedToContentStep(w) ==
  LET selectedIds == withBrand(w.state.selectedEditors)
  IN  IF Len(selectedIds) = 0 THEN createNoEditorsErrorMessage(w)
      ELSE LET w1 == updateState(w, [w.state EXCEPT !.selectedEditors = selectedIds])
               w2 == updateState(w1, [w1.state EXCEPT !.step = "awaiting_content"])
           IN  emit(w2, "prompt", "upload_document")

handleEditorSelection_notStored(w, selectedIds) ==
  IF w.state.step # "awaiting_editors" THEN w
  ELSE proceedToContentStep(w)

handleEditorSelection_noStepGuard(w, selectedIds) ==
  proceedToContentStep(
    updateState(w, [w.state EXCEPT !.selectedEditors = withBrand(selectedIds)]))

handleEditorSelection(w, selectedIds) ==
  IF w.state.step # "awaiting_editors" THEN w
  ELSE LET editorsWithBrand == withBrand(selectedIds)
       IN  IF Len(editorsWithBrand) = 0 THEN createNoEditorsErrorMessage(w)
           ELSE proceedToContentStep(
                  updateState(w, [w.state EXCEPT !.selectedEditors = editorsWithBrand]))

----------------------------------------------------------------------------
(* Content processing: processWithContent up to and after its await, and    *)
(* the subscription made by processContent.                                 *)

processingFailed(w) == completeWorkflow(emit(w, "result", "error_processing"))

subscribeEditStream(w) == [w EXCEPT !.streams = @ + 1]

processExtracted_noBlankCheck(w, contentText) ==
  IF contentText = "" THEN processingFailed(w)
  ELSE LET w1 == updateState(w, [w.state EXCEPT !.step = "processing"])
           w2 == emit(w1, "prompt", "processing")
       IN  subscribeEditStream(w2)

processExtracted(w, contentText) ==
  IF trim(contentText) = "" THEN processingFailed(w)
  ELSE LET w1 == updateState(w, [w.state EXCEPT !.step = "processing"])
           w2 == emit(w1, "prompt", "processing")
       IN  subscribeEditStream(w2)

processWithContent(w) ==
  LET contentText == w.state.originalContent
  IN  IF w.state.uploadedFile # Null /\ contentText = ""
      THEN [w EXCEPT !.pendingExtract = @ + 1]
      ELSE processExtracted(w, contentText)

extractResolved(w, result) ==
  LET w0 == [w EXCEPT !.pendingExtract = @ - 1]
  IN  IF result = "throw" THEN processingFailed(w0)
      ELSE processExtracted(
             updateState(w0, [w0.state EXCEPT !.originalContent = result]), result)

handleFileUpload_noStepGuard(w, file) ==
  processWithContent(updateState(w, [w.state EXCEPT !.uploadedFile = file]))

handleFileUpload(w, file) ==
  IF w.state.step # "awaiting_content" THEN w
  ELSE processWithContent(updateState(w, [w.state EXCEPT !.uploadedFile = file]))

----------------------------------------------------------------------------
(* Paragraph edits.  A stored ParagraphEdit keeps the fields the workflow   *)
(* reads: index, original and approved ("true", "false" or "null").  An     *)
(* edit of a stream event carries what the server sent; splitText is the    *)
(* paragraph splitIntoParagraphs gives at its index ("" when none) and      *)
(* identical is the answer of validateStringEquality for it.                *)

EditInput(index, original, splitText, autoApproved, identical, approved) ==
  [index |-> index, original |-> original, splitText |-> splitText,
   autoApproved |-> autoApproved, identical |-> identical, approved |-> approved]

Undecided == EditInput(-1, "p", "", Undefined, FALSE, Undefined)

AutoApproved == EditInput(0, " ", "", "true", FALSE, Undefined)

Declined == EditInput(-1, "", "p", "false", TRUE, "false")

Blank == EditInput(-1, "", "", Undefined, TRUE, Undefined)

EditInputs == {Undecided, AutoApproved, Declined, Blank}

mapEdit(edit, arrayIndex) ==
  LET paragraphIndex == IF edit.index = -1 THEN arrayIndex ELSE edit.index
      originalText == IF trim(edit.original) # "" THEN trim(edit.original)
                      ELSE trim(edit.splitText)
      autoApproved == IF edit.autoApproved # Undefined THEN edit.autoApproved = "true"
                      ELSE edit.identical
      approved == IF autoApproved THEN "true"
                  ELSE IF edit.approved # Undefined THEN edit.approved ELSE Null
  IN  [index |-> paragraphIndex, original |-> originalText, approved |-> approved]

mapEdits(edits) == [i \in 1..Len(edits) |-> mapEdit(edits[i], i - 1)]

EditLists ==
  {<<>>, <<Undecided, Declined>>, <<Undecided, AutoApproved>>, <<AutoApproved, Blank>>}

ParagraphLists == {mapEdits(l) : l \in EditLists}

allParagraphsDecided(paragraphEdits) ==
  \A i \in 1..Len(paragraphEdits) : paragraphEdits[i].approved # Null

findIndex(paragraphEdits, index) ==
  IF \E i \in 1..Len(paragraphEdits) : paragraphEdits[i].index = index
  THEN CHOOSE i \in 1..Len(paragraphEdits) :
         /\ paragraphEdits[i].index = index
         /\ \A j \in 1..(i - 1) : paragraphEdits[j].index # index
  ELSE 0

emitParagraphUpdateMessage(w) == emit(w, "update", "paragraph_edits")

decideParagraph_everyParagraph(w, index, approved) ==
  LET paragraphIndex == findIndex(w.state.paragraphEdits, index)
  IN  IF paragraphIndex = 0 THEN w
      ELSE emitParagraphUpdateMessage(
             updateState(w, [w.state EXCEPT
               !.paragraphEdits = [i \in 1..Len(@) |-> [@[i] EXCEPT !.approved = approved]]]))

decideParagraph(w, index, approved) ==
  LET paragraphIndex == findIndex(w.state.paragraphEdits, index)
  IN  IF paragraphIndex = 0 THEN w
      ELSE emitParagraphUpdateMessage(
             updateState(w, [w.state EXCEPT
               !.paragraphEdits = [@ EXCEPT ![paragraphIndex].approved = approved]]))

approveParagraph(w, index) == decideParagraph(w, index, "true")

declineParagraph(w, index) == decideParagraph(w, index, "false")

RECURSIVE joinOriginals(_)
joinOriginals(paragraphEdits) ==
  IF paragraphEdits = <<>> THEN ""
  ELSE IF trim(Head(paragraphEdits).original) # "" THEN "doc"
       ELSE joinOriginals(Tail(paragraphEdits))

reconstructOriginalContent(paragraphEdits) == joinOriginals(paragraphEdits)

syncParagraphEditsFromMessage(w, paragraphEdits) ==
  IF Len(paragraphEdits) = 0 THEN w
  ELSE LET current == w.state.originalContent
           originalContent == IF trim(current) = ""
                              THEN reconstructOriginalContent(paragraphEdits)
                              ELSE current
       IN  updateState(w, [w.state EXCEPT
             !.paragraphEdits = paragraphEdits,
             !.originalContent = IF originalContent # "" THEN originalContent ELSE current])

----------------------------------------------------------------------------
(* The edit stream subscribed by processContent: its next, error and        *)
(* complete callbacks.  In the model `or` is JavaScript's || on strings.    *)

or(a, b) == IF a # "" THEN a ELSE b

EditorComplete(thread_id, has_edits, edits, original_content) ==
  [type |-> "editor_complete", thread_id |-> thread_id, has_edits |-> has_edits,
   edits |-> edits, original_content |-> original_content,
   comparison |-> <<>>, feedback |-> FALSE]

FinalComplete(has_edits, edits, original_content, comparison, feedback) ==
  [type |-> "final_complete", thread_id |-> "", has_edits |-> has_edits,
   edits |-> edits, original_content |-> original_content,
   comparison |-> comparison, feedback |-> feedback]

PlainEvent(type) ==
  [type |-> type, thread_id |-> "", has_edits |-> FALSE, edits |-> <<>>,
   original_content |-> "", comparison |-> <<>>, feedback |-> FALSE]

StreamData ==
  {PlainEvent(t) : t \in {"editor_progress", "editor_content", "editor_error"}}
  \cup {EditorComplete("t1", TRUE, l, "") : l \in EditLists}
  \cup {EditorComplete("", TRUE, <<Undecided, Declined>>, "doc"),
        EditorComplete("", FALSE, <<>>, "")}
  \cup {FinalComplete(TRUE, l, "", <<>>, FALSE) : l \in EditLists \ {<<>>}}
  \cup {FinalComplete(FALSE, <<>>, "", <<>>, TRUE),
        FinalComplete(FALSE, <<>>, "doc", mapEdits(<<Undecided, Declined>>), FALSE)}

onEditorComplete(w, data) ==
  LET w1 == IF data.thread_id # "" THEN [w EXCEPT !.threadId = data.thread_id] ELSE w
      w2 == IF data.has_edits
            THEN emit(updateState(w1, [w1.state EXCEPT
                        !.paragraphEdits = mapEdits(data.edits),
                        !.originalContent = or(data.original_content, w1.state.originalContent)]),
                      "result", "paragraph_edits")
            ELSE w1
      w3 == IF data.original_content # ""
            THEN updateState(w2, [w2.state EXCEPT !.originalContent = data.original_content])
            ELSE w2
  IN  emit(w3, "prompt", "progress")

dispatchResultsToChat(w, hasFeedback, paragraphEdits) ==
  LET w1 == IF hasFeedback THEN emit(w, "result", "feedback") ELSE w
  IN  IF Len(paragraphEdits) > 0 THEN emit(w1, "result", "paragraph_edits")
      ELSE emit(w1, "result", "no_revised_article")

onFinalComplete(w, data) ==
  LET paragraphEdits == IF data.has_edits THEN mapEdits(data.edits) ELSE data.comparison
      w1 == updateState(w, [w.state EXCEPT
              !.paragraphEdits = paragraphEdits,
              !.originalContent = or(data.original_content, w.state.originalContent)])
      w2 == emit(w1, "prompt", "progress")
  IN  dispatchResultsToChat(w2, data.feedback, paragraphEdits)

streamNext(w, data) ==
  IF data.type = "editor_progress" THEN emit(w, "prompt", "progress")
  ELSE IF data.type = "editor_content" THEN w
  ELSE IF data.type = "editor_complete" THEN onEditorComplete(w, data)
  ELSE IF data.type = "editor_error" THEN emit(w, "prompt", "editor_error")
  ELSE IF data.type = "final_complete" THEN onFinalComplete(w, data)
  ELSE w

streamError(w) ==
  completeWorkflow(emit([w EXCEPT !.streams = @ - 1], "result", "error_editing"))

streamComplete_noReset(w) == [w EXCEPT !.streams = @ - 1]

streamComplete(w) == completeWorkflow([w EXCEPT !.streams = @ - 1])

----------------------------------------------------------------------------
(* generateFinalArticle up to its fetch, and the rest of it once the        *)
(* response (or the failure) is there.                                      *)

setGenerating(w, b) ==
  [w EXCEPT !.isGeneratingFinal = b, !.out = Append(@, GeneratingEvt(b))]

generateFinalArticle_noDecidedGuard(w) ==
  LET w1 == setGenerating(w, TRUE)
      current == w1.state.originalContent
      originalContent == IF trim(current) = ""
                         THEN reconstructOriginalContent(w1.state.paragraphEdits)
                         ELSE current
  IN  IF trim(originalContent) = ""
      THEN setGenerating(emit(w1, "prompt", "failed_final"), FALSE)
      ELSE [w1 EXCEPT !.pendingFinal = @ + 1]

generateFinalArticle(w) ==
  IF ~allParagraphsDecided(w.state.paragraphEdits)
  THEN emit(w, "prompt", "approve_or_decline_all")
  ELSE LET w1 == setGenerating(w, TRUE)
           current == w1.state.originalContent
           originalContent == IF trim(current) = ""
                              THEN reconstructOriginalContent(w1.state.paragraphEdits)
                              ELSE current
       IN  IF trim(originalContent) = ""
           THEN setGenerating(emit(w1, "prompt", "failed_final"), FALSE)
           ELSE [w1 EXCEPT !.pendingFinal = @ + 1]

FinalOutcomes == {"ok", "http_error", "no_final_article", "fetch_rejected"}

finalResponse_resetOnFailure(w, outcome) ==
  LET w0 == [w EXCEPT !.pendingFinal = @ - 1]
      w1 == IF outcome = "ok"
            THEN completeWorkflow(emit(w0, "result", "final_article"))
            ELSE completeWorkflow(emit(w0, "prompt", "failed_final"))
  IN  setGenerating(w1, FALSE)

finalResponse(w, outcome) ==
  LET w0 == [w EXCEPT !.pendingFinal = @ - 1]
      w1 == IF outcome = "ok"
            THEN completeWorkflow(emit(w0, "result", "final_article"))
            ELSE emit(w0, "prompt", "failed_final")
  IN  setGenerating(w1, FALSE)

----------------------------------------------------------------------------
(* nextEditor: its guards and request, the events of the response stream    *)
(* it reads, the end of that stream and its failure.  The paragraphEdits    *)
(* argument only fills the request body.                                    *)

nextEditor_noDecidedGuard(w) ==
  IF w.threadId = Null THEN emit(w, "prompt", "no_thread_id")
  ELSE [w EXCEPT !.pendingNext = @ + 1]

nextEditor(w) ==
  IF w.threadId = Null THEN emit(w, "prompt", "no_thread_id")
  ELSE IF ~allParagraphsDecided(w.state.paragraphEdits)
       THEN emit(w, "prompt", "approve_or_reject_all")
  ELSE [w EXCEPT !.pendingNext = @ + 1]

NextEditorData ==
  {PlainEvent("all_complete"), PlainEvent("error"),
   EditorComplete("t2", TRUE, <<Undecided, Declined>>, ""),
   EditorComplete("", FALSE, <<>>, "doc")}

nextEditorData(w, data) ==
  IF data.type = "all_complete"
  THEN emit([w EXCEPT !.pendingNext = @ - 1], "update", "paragraph_edits")
  ELSE IF data.type = "editor_complete"
  THEN LET w1 == IF data.thread_id # "" THEN [w EXCEPT !.threadId = data.thread_id] ELSE w
           newParagraphEdits == IF data.has_edits THEN mapEdits(data.edits) ELSE <<>>
           w2 == IF data.original_content # ""
                 THEN updateState(w1, [w1.state EXCEPT
                                         !.originalContent = data.original_content])
                 ELSE w1
           w3 == updateState(w2, [w2.state EXCEPT !.paragraphEdits = newParagraphEdits])
       IN  emit(w3, "result", "paragraph_edits")
  ELSE w

nextEditorDone(w) == [w EXCEPT !.pendingNext = @ - 1]

nextEditorFailed(w) == emit([w EXCEPT !.pendingNext = @ - 1], "prompt", "failed_next")

----------------------------------------------------------------------------
(* Chat input.  A trimmed input is the list of its parts between commas,    *)
(* semicolons and white space: a word, a number, a range a-b, or a part     *)
(* that mixes digits with other characters.                                 *)

Word(str) == [k |-> "word", s |-> str, a |-> 0, b |-> 0]

Num(n) == [k |-> "num", s |-> "", a |-> n, b |-> n]

Range(a, b) == [k |-> "range", s |-> "", a |-> a, b |-> b]

Mixed(str) == [k |-> "mixed", s |-> str, a |-> 0, b |-> 0]

ProceedWords == {"proceed", "continue", "yes"}

FillerWords == {"select", "choose", "pick", "use", "want", "need", "editor"}

hasProceedKeyword(input) ==
  \/ \E i \in 1..Len(input) : input[i].k = "word" /\ input[i].s \in ProceedWords
  \/ input = <<Word("ok")>>
  \/ input = <<Word("done")>>

hasCancelKeyword(input) ==
  \E i \in 1..Len(input) : input[i].k = "word" /\ input[i].s = "cancel"

RECURSIVE cleanInput(_)
cleanInput(input) ==
  IF input = <<>> THEN <<>>
  ELSE LET t == Head(input)
           rest == cleanInput(Tail(input))
       IN  IF t.k = "word" /\ t.s \in FillerWords THEN rest
           ELSE IF t.k = "word" /\ t.s = "editors" THEN <<Word("s")>> \o rest
           ELSE <<t>> \o rest

least(S) == CHOOSE x \in S : \A y \in S : x <= y

sortSet(S) ==
  IF S = {} THEN <<>>
  ELSE LET lo == least(S)
           hi == 0 - least({0 - x : x \in S})
       IN  SelectSeq([i \in 1..(hi - lo + 1) |-> lo + i - 1], LAMBDA x : x \in S)

partNumbers(part) ==
  IF part.k = "num" THEN {part.a}
  ELSE IF part.k = "range" THEN part.a..part.b
  ELSE {}

parseNumericSelection(input) ==
  LET cleanedInput == cleanInput(input)
      hasDigit == \E i \in 1..Len(cleanedInput) : cleanedInput[i].k # "word"
      numbers == UNION {partNumbers(cleanedInput[i]) : i \in 1..Len(cleanedInput)}
  IN  IF ~hasDigit
      THEN [selectedIndices |-> <<>>, invalidIndices |-> <<>>,
            hasInput |-> Len(cleanedInput) > 0]
      ELSE [selectedIndices |-> sortSet({n \in numbers : n >= 1 /\ n <= 5}),
            invalidIndices |-> sortSet({n \in numbers : ~(n >= 1 /\ n <= 5)}),
            hasInput |-> TRUE]

showInvalidSelectionError(w) == emit(w, "prompt", "invalid_selection")

handleNumericSelection_noBrand(w, result) ==
  IF Len(result.invalidIndices) > 0 THEN emit(w, "prompt", "invalid_numbers")
  ELSE IF Len(result.selectedIndices) = 0 /\ result.hasInput
       THEN showInvalidSelectionError(w)
  ELSE IF Len(result.selectedIndices) > 0
       THEN LET picked == {editorOptions[n] : n \in SeqRange(result.selectedIndices)}
                selectedIds == filter(editorOptions, picked)
            IN  emit(updateState(w, [w.state EXCEPT !.selectedEditors = selectedIds]),
                     "prompt", "selected_editors")
  ELSE w

handleNumericSelection_merged(w, result) ==
  IF Len(result.invalidIndices) > 0 THEN emit(w, "prompt", "invalid_numbers")
  ELSE IF Len(result.selectedIndices) = 0 /\ result.hasInput
       THEN showInvalidSelectionError(w)
  ELSE IF Len(result.selectedIndices) > 0
       THEN LET picked == {editorOptions[n] : n \in SeqRange(result.selectedIndices)}
                        \cup SeqRange(w.state.selectedEditors)
                selectedIds == withBrand(filter(editorOptions, picked))
            IN  emit(updateState(w, [w.state EXCEPT !.selectedEditors = selectedIds]),
                     "prompt", "selected_editors")
  ELSE w

handleNumericSelection(w, result) ==
  IF Len(result.invalidIndices) > 0 THEN emit(w, "prompt", "invalid_numbers")
  ELSE IF Len(result.selectedIndices) = 0 /\ result.hasInput
       THEN showInvalidSelectionError(w)
  ELSE IF Len(result.selectedIndices) > 0
       THEN LET picked == {editorOptions[n] : n \in SeqRange(result.selectedIndices)}
                selectedIds == withBrand(filter(editorOptions, picked))
            IN  emit(updateState(w, [w.state EXCEPT !.selectedEditors = selectedIds]),
                     "prompt", "selected_editors")
  ELSE w

handleChatInput(w, input, file) ==
  IF w.state.step = "idle"
  THEN IF input = <<>> THEN w ELSE [w EXCEPT !.pendingIntent = @ + 1]
  ELSE IF w.state.step = "awaiting_editors"
  THEN IF input = <<>> THEN w
       ELSE IF hasProceedKeyword(input) THEN proceedToContentStep(w)
       ELSE IF hasCancelKeyword(input) THEN cancelWorkflow(w)
       ELSE LET selectionResult == parseNumericSelection(input)
            IN  IF Len(selectionResult.selectedIndices) > 0 \/ selectionResult.hasInput
                THEN handleNumericSelection(w, selectionResult)
                ELSE showInvalidSelectionError(w)
  ELSE IF w.state.step = "awaiting_content"
  THEN IF file # Null THEN handleFileUpload(w, file)
       ELSE IF input # <<>> THEN emit(w, "prompt", "please_upload")
       ELSE w
  ELSE w

(* The parts of a typed text.  A text is a sequence of characters; trim,   *)
(* the split on /[,;\s]+/ with its filter of empty parts, the two regular   *)
(* expressions of parseNumericSelection and parseInt give the parts above.  *)

Digits == {"1", "2", "5"}

Separators == {",", ";", " "}

Chars == Digits \cup Separators \cup {"-"}

digitValue(c) == IF c = "1" THEN 1 ELSE IF c = "2" THEN 2 ELSE 5

RECURSIVE parseInt(_)
parseInt(digits) ==
  IF digits = <<>> THEN 0
  ELSE 10 * parseInt(SubSeq(digits, 1, Len(digits) - 1)) + digitValue(digits[Len(digits)])

RECURSIVE trimStart(_)
trimStart(text) ==
  IF text # <<>> /\ Head(text) = " " THEN trimStart(Tail(text)) ELSE text

RECURSIVE trimEnd(_)
trimEnd(text) ==
  IF text # <<>> /\ text[Len(text)] = " "
  THEN trimEnd(SubSeq(text, 1, Len(text) - 1))
  ELSE text

trimText(text) == trimEnd(trimStart(text))

RECURSIVE split(_, _)
split(text, part) ==
  LET done == IF part = <<>> THEN <<>> ELSE <<part>>
  IN  IF text = <<>> THEN done
      ELSE IF Head(text) \in Separators THEN done \o split(Tail(text), <<>>)
      ELSE split(Tail(text), Append(part, Head(text)))

numberMatch(part) == part # <<>> /\ \A i \in 1..Len(part) : part[i] \in Digits

dashOf(part) ==
  {k \in 2..(Len(part) - 1) :
     /\ part[k] = "-"
     /\ numberMatch(SubSeq(part, 1, k - 1))
     /\ numberMatch(SubSeq(part, k + 1, Len(part)))}

rangeMatch(part) == dashOf(part) # {}

partOf(part) ==
  IF rangeMatch(part)
  THEN LET k == CHOOSE k \in dashOf(part) : TRUE
       IN  Range(parseInt(SubSeq(part, 1, k - 1)), parseInt(SubSeq(part, k + 1, Len(part))))
  ELSE IF numberMatch(part) THEN Num(parseInt(part))
  ELSE IF \E i \in 1..Len(part) : part[i] \in Digits THEN Mixed("?")
  ELSE Word("-")

inputParts(text) ==
  LET trimmedInput == trimText(text)
      parts == split(trimmedInput, <<>>)
  IN  IF trimmedInput = <<>> THEN <<>>
      ELSE IF parts = <<>> THEN <<Word(",")>>
      ELSE [i \in 1..Len(parts) |-> partOf(parts[i])]

(* detectEditIntent's answer and the rest of handleChatInput after it *)

IntentResult(error, is_edit_intent, confidence, detected_editors) ==
  [error |-> error, is_edit_intent |-> is_edit_intent, confidence |-> confidence,
   detected_editors |-> detected_editors]

IntentResults ==
  {IntentResult(TRUE, FALSE, 0, <<>>),
   IntentResult(FALSE, TRUE, 90, <<>>),
   IntentResult(FALSE, TRUE, 70, <<"line">>),
   IntentResult(FALSE, TRUE, 69, <<"line">>),
   IntentResult(FALSE, FALSE, 95, <<"copy">>),
   IntentResult(FALSE, TRUE, 100, <<"grammar">>),
   IntentResult(FALSE, TRUE, 80, <<"brand-alignment", "development">>)}

detectEditIntent_anyConfidence(result) ==
  IF result.error
  THEN [hasEditIntent |-> FALSE, detectedEditors |-> <<>>]
  ELSE [hasEditIntent |-> result.is_edit_intent,
        detectedEditors |-> result.detected_editors]

detectEditIntent(result) ==
  IF result.error
  THEN [hasEditIntent |-> FALSE, detectedEditors |-> <<>>]
  ELSE [hasEditIntent |-> result.is_edit_intent /\ result.confidence >= ConfidenceThreshold,
        detectedEditors |-> result.detected_editors]

intentResolved(w, result) ==
  LET intentResult == detectEditIntent(result)
      w0 == [w EXCEPT !.pendingIntent = @ - 1]
  IN  IF intentResult.hasEditIntent
      THEN IF Len(intentResult.detectedEditors) > 0
           THEN beginWorkflowWithEditors(w0, intentResult.detectedEditors)
           ELSE beginWorkflow(w0)
      ELSE w0

----------------------------------------------------------------------------
(* highlightAllFeedbacks of ParagraphEditsConsolidatedComponent.  Texts are *)
(* sequences of characters; a paragraph carries its original and edited     *)
(* text and the feedback items of all its editor types in the order of      *)
(* Object.keys.                                                             *)

SpanStrikeoutYellow ==
  <<"<", "s", "p", "a", "n", " ", "c", "l", "a", "s", "s", "=", "\"", "s",
    "t", "r", "i", "k", "e", "o", "u", "t", " ", "h", "i", "g", "h", "l",
    "i", "g", "h", "t", "-", "y", "e", "l", "l", "o", "w", "\"", ">">>

SpanGreen ==
  <<"<", "s", "p", "a", "n", " ", "c", "l", "a", "s", "s", "=", "\"", "h",
    "i", "g", "h", "l", "i", "g", "h", "t", "-", "g", "r", "e", "e", "n",
    "\"", ">">>

SpanYellow ==
  <<"<", "s", "p", "a", "n", " ", "c", "l", "a", "s", "s", "=", "\"", "h",
    "i", "g", "h", "l", "i", "g", "h", "t", "-", "y", "e", "l", "l", "o",
    "w", "\"", ">">>

SpanClose ==
  <<"<", "/", "s", "p", "a", "n", ">">>

RECURSIVE stripHtmlSpans(_)
stripHtmlSpans(html) ==
  IF html = <<>> THEN <<>>
  ELSE IF Head(html) = "<" /\ \E j \in 2..Len(html) : html[j] = ">"
       THEN LET j == CHOOSE j \in 2..Len(html) :
                       html[j] = ">" /\ \A k \in 2..(j - 1) : html[k] # ">"
            IN  stripHtmlSpans(SubSeq(html, j + 1, Len(html)))
       ELSE <<Head(html)>> \o stripHtmlSpans(Tail(html))

matchAt(text, word, i) ==
  i + Len(word) - 1 <= Len(text) /\ SubSeq(text, i, i + Len(word) - 1) = word

includes(text, word) == \E i \in 1..Len(text) : matchAt(text, word, i)

RECURSIVE execAll(_, _, _)
execAll(text, word, lastIndex) ==
  IF \E i \in (lastIndex + 1)..Len(text) : matchAt(text, word, i)
  THEN LET i == CHOOSE i \in (lastIndex + 1)..Len(text) :
                  /\ matchAt(text, word, i)
                  /\ \A k \in (lastIndex + 1)..(i - 1) : ~matchAt(text, word, k)
       IN  <<i - 1>> \o execAll(text, word, i - 1 + Len(word))
  ELSE <<>>

itemsOf(text, word, approved) ==
  IF word # <<>> /\ includes(text, word)
  THEN LET found == execAll(text, word, 0)
       IN  [k \in 1..Len(found) |->
              [text |-> word, approved |-> approved,
               start |-> found[k], end |-> found[k] + Len(word)]]
  ELSE <<>>

RECURSIVE collectItems(_, _, _)
collectItems(text, feedbacks, ofIssue) ==
  IF feedbacks = <<>> THEN <<>>
  ELSE LET fb == Head(feedbacks)
           word == trimText(IF ofIssue THEN fb.issue ELSE fb.fix)
       IN  itemsOf(text, word, fb.approved) \o collectItems(text, Tail(feedbacks), ofIssue)

insertByStart(sorted, item) ==
  LET k == Cardinality({i \in 1..Len(sorted) : sorted[i].start >= item.start})
  IN  SubSeq(sorted, 1, k) \o <<item>> \o SubSeq(sorted, k + 1, Len(sorted))

RECURSIVE sortByStartDescending(_)
sortByStartDescending(items) ==
  IF items = <<>> THEN <<>>
  ELSE insertByStart(sortByStartDescending(SubSeq(items, 1, Len(items) - 1)),
                     items[Len(items)])

spanOf(approved, ofOriginal) ==
  IF approved = "true" THEN (IF ofOriginal THEN SpanStrikeoutYellow ELSE SpanGreen)
  ELSE IF approved = "false" THEN (IF ofOriginal THEN SpanGreen ELSE SpanStrikeoutYellow)
  ELSE SpanYellow

RECURSIVE applyHighlights(_, _, _)
applyHighlights(text, items, ofOriginal) ==
  IF items = <<>> THEN text
  ELSE LET item == Head(items)
           before == SubSeq(text, 1, item.start)
           highlighted == spanOf(item.approved, ofOriginal) \o item.text \o SpanClose
           after == SubSeq(text, item.end + 1, Len(text))
       IN  applyHighlights(before \o highlighted \o after, Tail(items), ofOriginal)

highlightAllFeedbacks(para) ==
  LET originalText == stripHtmlSpans(para.original)
      editedText == stripHtmlSpans(para.edited)
      originalItems == collectItems(originalText, para.editorial_feedback, TRUE)
      editedItems == collectItems(editedText, para.editorial_feedback, FALSE)
  IN  [original |-> applyHighlights(originalText, sortByStartDescending(originalItems), TRUE),
       edited |-> applyHighlights(editedText, sortByStartDescending(editedItems), FALSE)]

----------------------------------------------------------------------------
(* op records the step taken and the part of its input the handler read *)

Op(name, arg) == [name |-> name, arg |-> arg]

chatInputRead(step, input, file) ==
  IF step = "awaiting_editors" THEN [input |-> input, file |-> Null]
  ELSE IF step = "awaiting_content"
       THEN [input |-> IF file = Null /\ input # <<>> THEN <<Word("hello")>> ELSE <<>>,
             file |-> file]
  ELSE [input |-> IF step = "idle" /\ input # <<>> THEN <<Word("hello")>> ELSE <<>>,
        file |-> Null]

(* At most MaxPending asynchronous operations are in flight at a time; a    *)
(* nextEditor request and the running edit stream whose thread it continues *)
(* count as one.                                                            *)

Bounded(w) ==
  w.pendingIntent + w.pendingExtract + w.streams + w.pendingFinal + w.pendingNext
    <= MaxPending + (IF w.streams > 0 /\ w.pendingNext > 0 THEN 1 ELSE 0)

Step(w, o) == Bounded(w) /\ Commit(w, o)

EditorIdInputs ==
  {<<>>, <<"line">>, <<"brand-alignment", "development">>, <<"grammar">>,
   <<"grammar", "copy", "copy">>}

ParagraphIndexes == {0, 1, 2}

ChatInputs ==
  {<<>>, <<Word("hello")>>, <<Word("proceed")>>, <<Word("cancel")>>,
   <<Word("editors"), Num(3), Num(1)>>, <<Num(5)>>, <<Range(4, 6)>>}

Init ==
  /\ state = getDefaultState
  /\ threadId = Null
  /\ isGeneratingFinal = FALSE
  /\ pendingIntent = 0
  /\ pendingExtract = 0
  /\ streams = 0
  /\ pendingFinal = 0
  /\ pendingNext = 0
  /\ op = Op("init", <<>>)
  /\ out = <<>>

HandleChatInput ==
  \E input \in ChatInputs, file \in Files \cup {Null} :
    Step(handleChatInput(World, input, file),
         Op("handleChatInput", chatInputRead(state.step, input, file)))

IntentResolved ==
  /\ pendingIntent > 0
  /\ \E result \in IntentResults :
       Step(intentResolved(World, result), Op("intentResolved", result))

BeginWorkflow == Step(beginWorkflow(World), Op("beginWorkflow", <<>>))

BeginWorkflowWithEditors ==
  \E ids \in EditorIdInputs :
    Step(beginWorkflowWithEditors(World, ids), Op("beginWorkflowWithEditors", ids))

HandleEditorSelection ==
  \E ids \in EditorIdInputs :
    Step(handleEditorSelection(World, ids),
         Op("handleEditorSelection", IF state.step = "awaiting_editors" THEN ids ELSE <<>>))

HandleFileUpload ==
  \E f \in Files :
    Step(handleFileUpload(World, f),
         Op("handleFileUpload", IF state.step = "awaiting_content" THEN f ELSE Null))

ExtractResolved ==
  /\ pendingExtract > 0
  /\ \E r \in Contents \cup {"throw"} :
       Step(extractResolved(World, r), Op("extractResolved", r))

StreamNext ==
  /\ streams > 0
  /\ \E data \in StreamData : Step(streamNext(World, data), Op("streamNext", data))

StreamError ==
  /\ streams > 0
  /\ Step(streamError(World), Op("streamError", <<>>))

StreamComplete ==
  /\ streams > 0
  /\ Step(streamComplete(World), Op("streamComplete", <<>>))

CancelWorkflow == Step(cancelWorkflow(World), Op("cancelWorkflow", <<>>))

CompleteWorkflow == Step(completeWorkflow(World), Op("completeWorkflow", <<>>))

ApproveParagraph ==
  \E index \in ParagraphIndexes :
    Step(approveParagraph(World, index), Op("approveParagraph", index))

DeclineParagraph ==
  \E index \in ParagraphIndexes :
    Step(declineParagraph(World, index), Op("declineParagraph", index))

SyncParagraphEditsFromMessage ==
  \E paragraphEdits \in ParagraphLists :
    Step(syncParagraphEditsFromMessage(World, paragraphEdits),
         Op("syncParagraphEditsFromMessage", paragraphEdits))

GenerateFinalArticle ==
  Step(generateFinalArticle(World), Op("generateFinalArticle", <<>>))

FinalResponse ==
  /\ pendingFinal > 0
  /\ \E outcome \in FinalOutcomes :
       Step(finalResponse(World, outcome), Op("finalResponse", outcome))

NextEditor == Step(nextEditor(World), Op("nextEditor", <<>>))

NextEditorEvent ==
  /\ pendingNext > 0
  /\ \E data \in NextEditorData :
       Step(nextEditorData(World, data), Op("nextEditorData", data))

NextEditorDone ==
  /\ pendingNext > 0
  /\ Step(nextEditorDone(World), Op("nextEditorDone", <<>>))

NextEditorFailed ==
  /\ pendingNext > 0
  /\ Step(nextEditorFailed(World), Op("nextEditorFailed", <<>>))

(* Every operation of the workflow of one edit stream *)

Next ==
  \/ HandleChatInput
  \/ IntentResolved
  \/ BeginWorkflow
  \/ BeginWorkflowWithEditors
  \/ HandleEditorSelection
  \/ HandleFileUpload
  \/ ExtractResolved
  \/ StreamNext
  \/ StreamError
  \/ StreamComplete
  \/ CancelWorkflow
  \/ CompleteWorkflow
  \/ ApproveParagraph
  \/ DeclineParagraph
  \/ SyncParagraphEditsFromMessage
  \/ GenerateFinalArticle
  \/ FinalResponse

Spec == Init /\ [][Next]_vars

(* The service with the next-editor requests of the sequential mode as well *)

NextAll ==
  \/ Next
  \/ NextEditor
  \/ NextEditorEvent
  \/ NextEditorDone
  \/ NextEditorFailed

SpecAll == Init /\ [][NextAll]_vars

(* Editor selection typed as text: in step awaiting_editors, after the      *)
(* default selection or after a selection of editor 3, one text of up to    *)
(* MaxLen characters is typed.                                              *)

InputTexts(n) == [1..n -> Chars]

InitInput ==
  /\ \E ids \in {<<BrandAlignment>>, <<"line", BrandAlignment>>} :
       state = [getDefaultState EXCEPT !.step = "awaiting_editors",
                                       !.selectedEditors = ids]
  /\ threadId = Null
  /\ isGeneratingFinal = FALSE
  /\ pendingIntent = 0
  /\ pendingExtract = 0
  /\ streams = 0
  /\ pendingFinal = 0
  /\ pendingNext = 0
  /\ op = Op("init", <<>>)
  /\ out = <<>>

HandleChatInputText ==
  /\ op.name = "init"
  /\ \E n \in 0..MaxLen : \E text \in InputTexts(n) :
       Step(handleChatInput(World, inputParts(text), Null),
            Op("handleChatInput", [input |-> text, file |-> Null]))

NextInput == HandleChatInputText

SpecInput == InitInput /\ [][NextInput]_vars

(* One paragraph is rendered: its texts have up to MaxText characters and   *)
(* it has up to MaxFeedback feedback items.                                 *)

Letters == {"a", "b"}

Words(n) == UNION {[1..k -> Letters] : k \in 0..n}

Originals == Words(MaxText) \cup {<<"<", "b", ">", "a">>}

Editeds == {<<>>, <<"a", "b">>}

FeedbackItems ==
  [issue : Words(MaxText - 1), fix : {<<>>, <<"b">>, <<"a", "b">>},
   approved : {"true", "false", Null}]

Paragraphs ==
  UNION {[original : Originals, edited : Editeds,
          editorial_feedback : [1..n -> FeedbackItems]] : n \in 0..MaxFeedback}

HighlightAllFeedbacks ==
  /\ op.name = "init"
  /\ \E para \in Paragraphs :
       LET result == highlightAllFeedbacks(para)
       IN  /\ op' = Op("highlightAllFeedbacks", para)
           /\ out' = <<result.original, result.edited>>
  /\ UNCHANGED svcVars

NextHighlight == HighlightAllFeedbacks

SpecHighlight == Init /\ [][NextHighlight]_vars

(* The workflow driven only through the chat handlers, the editor           *)
(* selection, the upload, the cancel button and the edit stream, one call   *)
(* at a time: a call starts only when no earlier call is still awaiting.    *)

Quiet == pendingIntent = 0 /\ pendingExtract = 0

SeqHandleChatInput == Quiet /\ HandleChatInput

SeqHandleEditorSelection == Quiet /\ HandleEditorSelection

SeqHandleFileUpload == Quiet /\ HandleFileUpload

SeqCancelWorkflow == Quiet /\ CancelWorkflow

NextSeq ==
  \/ SeqHandleChatInput
  \/ SeqHandleEditorSelection
  \/ SeqHandleFileUpload
  \/ SeqCancelWorkflow
  \/ IntentResolved
  \/ ExtractResolved
  \/ StreamNext
  \/ StreamError
  \/ StreamComplete

SpecSeq == Init /\ [][NextSeq]_vars

(* The edit stream ends: the observable calls error or complete *)

LiveSpec == Init /\ [][Next]_vars /\ WF_vars(StreamError \/ StreamComplete)

----------------------------------------------------------------------------
(* Properties *)

Messages(o) == SelectSeq(o, LAMBDA e : e.kind = "message")

Emitted(o, e) == \E i \in 1..Len(o) : o[i] = e

Decided(paragraphEdits) ==
  \A i \in 1..Len(paragraphEdits) : paragraphEdits[i].approved \in {"true", "false"}

Catalogue == {"development", "content", "line", "copy", "brand-alignment"}

PlusBrand(ids) ==
  IF \E i \in 1..Len(ids) : ids[i] = "brand-alignment" THEN ids
  ELSE ids \o <<"brand-alignment">>

ValidIds(ids) == SelectSeq(ids, LAMBDA id : id \in Catalogue)

DefaultState ==
  [step |-> "idle", uploadedFile |-> "null", selectedEditors |-> <<"brand-alignment">>,
   originalContent |-> "", paragraphEdits |-> <<>>]

(* C1: generateFinalArticle sends the final-article request and raises      *)
(* isGeneratingFinal only when every paragraph edit of the state is decided;*)
(* with an undecided paragraph it emits exactly one prompt asking to        *)
(* approve or decline all edits, sends nothing and changes nothing.         *)
C1_GenerateNeedsAllDecided ==
  [][op'.name = "generateFinalArticle" =>
       /\ (pendingFinal' > pendingFinal \/ Emitted(out', GeneratingEvt(TRUE)))
            => Decided(state.paragraphEdits)
       /\ ~Decided(state.paragraphEdits) =>
            /\ out' = <<Msg("prompt", "approve_or_decline_all")>>
            /\ UNCHANGED svcVars]_vars

C1_Witness ==
  /\ op.name = "generateFinalArticle"
  /\ ~Decided(state.paragraphEdits)
  /\ out = <<Msg("prompt", "approve_or_decline_all")>>
  /\ pendingFinal = 0

(* C2: in every reachable state selectedEditors contains brand-alignment.   *)
C2_BrandAlwaysSelected ==
  \E i \in 1..Len(state.selectedEditors) : state.selectedEditors[i] = "brand-alignment"

C2_Witness ==
  /\ op.name = "handleChatInput"
  /\ state.step = "awaiting_editors"
  /\ state.selectedEditors = <<"development", "line", "brand-alignment">>

(* C3: with one call at a time, every change of state.step, the ones inside *)
(* a handler included, follows idle -> awaiting_editors, idle ->            *)
(* awaiting_content, awaiting_editors -> awaiting_content,                  *)
(* awaiting_content -> processing, or leads to idle.                        *)
StepEdges ==
  {<<"idle", "awaiting_editors">>, <<"idle", "awaiting_content">>,
   <<"awaiting_editors", "awaiting_content">>, <<"awaiting_content", "processing">>}
  \cup {<<s, "idle">> : s \in EditWorkflowStep}

StepsOf(o) ==
  LET updates == SelectSeq(o, LAMBDA e : e.kind = "state")
  IN  [i \in 1..Len(updates) |-> updates[i].type]

C3_StepEdges ==
  [][LET steps == <<state.step>> \o StepsOf(out')
     IN  /\ steps[Len(steps)] = state'.step
         /\ \A i \in 1..(Len(steps) - 1) :
              steps[i] # steps[i + 1] => <<steps[i], steps[i + 1]>> \in StepEdges]_vars

C3_Witness ==
  /\ op.name = "extractResolved"
  /\ state.step = "processing"
  /\ streams > 0

(* C4: once state.step is processing and the edit stream ends, the service  *)
(* reaches the default idle state and emits workflowCompleted.              *)
C4_ProcessingEndsIdle ==
  (state.step = "processing") ~>
    (state = DefaultState /\ Emitted(out, WorkflowCompletedEvt))

C4_Witness ==
  /\ op.name = "streamComplete"
  /\ state = DefaultState
  /\ Emitted(out, WorkflowCompletedEvt)
  /\ streams = 0

(* C5: cancelWorkflow in step idle or processing changes nothing and emits  *)
(* nothing.                                                                 *)
C5_CancelIgnored ==
  [][op'.name = "cancelWorkflow" /\ state.step \in {"idle", "processing"} =>
       UNCHANGED svcVars /\ out' = <<>>]_vars

C5_Witness ==
  /\ op.name = "cancelWorkflow"
  /\ state.step = "processing"
  /\ out = <<>>

(* C6: cancelWorkflow in step awaiting_editors or awaiting_content sets the *)
(* default idle state, then emits workflowCompleted once, then one prompt   *)
(* saying the workflow was cancelled.                                       *)
C6_CancelResets ==
  [][op'.name = "cancelWorkflow"
       /\ state.step \in {"awaiting_editors", "awaiting_content"} =>
       /\ state' = DefaultState
       /\ out' = <<StateEvt(DefaultState), WorkflowCompletedEvt,
                   Msg("prompt", "cancelled")>>]_vars

C6_Witness ==
  /\ op.name = "cancelWorkflow"
  /\ state = DefaultState
  /\ out = <<StateEvt(DefaultState), WorkflowCompletedEvt, Msg("prompt", "cancelled")>>

(* C7: handleFileUpload outside step awaiting_content leaves the state      *)
(* unchanged, starts no content processing and emits nothing.               *)
C7_UploadIgnored ==
  [][op'.name = "handleFileUpload" /\ state.step # "awaiting_content" =>
       UNCHANGED svcVars /\ out' = <<>>]_vars

C7_Witness ==
  /\ op.name = "handleFileUpload"
  /\ state.step = "awaiting_editors"
  /\ state.uploadedFile = "null"
  /\ out = <<>>

(* C8: handleEditorSelection(ids) in step awaiting_editors moves to         *)
(* awaiting_content with selectedEditors = ids plus brand-alignment when    *)
(* absent and emits exactly one upload prompt; in any other step it changes *)
(* nothing and emits nothing.                                               *)
C8_EditorSelection ==
  [][op'.name = "handleEditorSelection" =>
       IF state.step = "awaiting_editors"
       THEN /\ state' = [state EXCEPT !.step = "awaiting_content",
                                      !.selectedEditors = PlusBrand(op'.arg)]
            /\ Messages(out') = <<Msg("prompt", "upload_document")>>
            /\ UNCHANGED <<threadId, isGeneratingFinal, pendingIntent,
                           pendingExtract, streams, pendingFinal, pendingNext>>
       ELSE UNCHANGED svcVars /\ out' = <<>>]_vars

C8_Witness ==
  /\ op.name = "handleEditorSelection"
  /\ op.arg = <<"grammar">>
  /\ state.step = "awaiting_content"
  /\ state.selectedEditors = <<"grammar", "brand-alignment">>

(* C9: handleChatInput in step idle begins a workflow exactly when the      *)
(* intent backend answers is_edit_intent with confidence >= 0.7, through    *)
(* beginWorkflowWithEditors when editors were detected and beginWorkflow    *)
(* otherwise; for blank input, a backend error, no edit intent or a lower   *)
(* confidence the state stays as it is and no message is emitted.           *)
C9_IntentStartsWorkflow ==
  [][/\ op'.name = "handleChatInput" /\ state.step = "idle" =>
          /\ state' = state
          /\ out' = <<>>
          /\ pendingIntent' = pendingIntent + (IF op'.arg.input = <<>> THEN 0 ELSE 1)
     /\ op'.name = "intentResolved" =>
          LET r == op'.arg
              begins == ~r.error /\ r.is_edit_intent /\ r.confidence >= 70
              valid == ValidIds(r.detected_editors)
          IN  IF begins
              THEN /\ Emitted(out', WorkflowStartedEvt)
                   /\ state' = IF valid # <<>>
                               THEN [DefaultState EXCEPT
                                       !.step = "awaiting_content",
                                       !.selectedEditors = PlusBrand(valid)]
                               ELSE [DefaultState EXCEPT !.step = "awaiting_editors"]
              ELSE state' = state /\ out' = <<>>]_vars

C9_Witness ==
  /\ op.name = "intentResolved"
  /\ op.arg.confidence = 70
  /\ state.step = "awaiting_content"
  /\ state.selectedEditors = <<"line", "brand-alignment">>

(* C10: beginWorkflowWithEditors(ids) with a catalogue id in ids sets the   *)
(* default state with step awaiting_content and selectedEditors = the valid *)
(* ids in order plus brand-alignment when absent; with no valid id its      *)
(* state, workflowStarted event and prompt are those of beginWorkflow.      *)
BeginWorkflowResult ==
  /\ state' = [DefaultState EXCEPT !.step = "awaiting_editors"]
  /\ out' = <<StateEvt(state'), WorkflowStartedEvt, Msg("prompt", "select_editors")>>

C10_BeginWithEditors ==
  [][/\ op'.name = "beginWorkflow" => BeginWorkflowResult
     /\ op'.name = "beginWorkflowWithEditors" =>
          LET valid == ValidIds(op'.arg)
          IN  IF valid # <<>>
              THEN /\ state' = [DefaultState EXCEPT !.step = "awaiting_content",
                                                    !.selectedEditors = PlusBrand(valid)]
                   /\ out' = <<StateEvt(state'), WorkflowStartedEvt,
                               Msg("prompt", "upload_document")>>
              ELSE BeginWorkflowResult]_vars

C10_Witness ==
  /\ op.name = "beginWorkflowWithEditors"
  /\ op.arg = <<"grammar", "copy", "copy">>
  /\ state.step = "awaiting_content"
  /\ state.selectedEditors = <<"copy", "copy", "brand-alignment">>

(* C11: approveParagraph(i) (declineParagraph(i)) sets approved to true     *)
(* (false) on the paragraph edit whose index is i, leaves every other       *)
(* paragraph edit and step, uploadedFile, selectedEditors, originalContent  *)
(* unchanged and emits exactly one update message, built after the state    *)
(* update; with no paragraph edit of index i it changes and emits nothing.  *)
HasIndex(paragraphEdits, i) ==
  \E k \in 1..Len(paragraphEdits) : paragraphEdits[k].index = i

C11_DecideParagraph ==
  [][op'.name \in {"approveParagraph", "declineParagraph"} =>
       LET i == op'.arg
           v == IF op'.name = "approveParagraph" THEN "true" ELSE "false"
           edits == state.paragraphEdits
       IN  IF HasIndex(edits, i)
           THEN /\ \E k \in 1..Len(edits) :
                     /\ edits[k].index = i
                     /\ state' = [state EXCEPT !.paragraphEdits[k].approved = v]
                /\ out' = <<StateEvt(state'), Msg("update", "paragraph_edits")>>
                /\ UNCHANGED <<threadId, isGeneratingFinal, pendingIntent,
                               pendingExtract, streams, pendingFinal, pendingNext>>
           ELSE UNCHANGED svcVars /\ out' = <<>>]_vars

C11_Witness ==
  /\ op.name = "declineParagraph"
  /\ op.arg = 0
  /\ Len(state.paragraphEdits) = 2
  /\ state.paragraphEdits[1].approved = "false"
  /\ state.paragraphEdits[2].approved = "true"
  /\ out = <<StateEvt(state), Msg("update", "paragraph_edits")>>

(* C12: paragraph edits stored in the state stay there for review: they are *)
(* emptied only by cancelWorkflow (the button or the chat keyword), by      *)
(* beginning a workflow, by a later stream event that replaces them or by a *)
(* successful generateFinalArticle (and, read generously, by an explicit    *)
(* completeWorkflow call or a failure of the extraction or of the stream);  *)
(* in particular the normal end of the stream leaves them in place.         *)
RemovesParagraphEdits(o) ==
  \/ o.name \in {"cancelWorkflow", "handleChatInput", "beginWorkflow",
                 "beginWorkflowWithEditors", "intentResolved", "streamNext",
                 "completeWorkflow", "extractResolved", "streamError"}
  \/ o.name = "finalResponse" /\ o.arg = "ok"

C12_EditsKeptForReview ==
  [][state.paragraphEdits # <<>> /\ state'.paragraphEdits = <<>> =>
       RemovesParagraphEdits(op')]_vars

C12_Witness ==
  /\ op.name = "streamComplete"
  /\ state.paragraphEdits = <<>>
  /\ streams = 0
  /\ threadId = "null"

(* C13: past its all-decided guard generateFinalArticle, on success, emits  *)
(* one result message with the final article and then resets the workflow   *)
(* through completeWorkflow; on any failure (no original content to send,   *)
(* HTTP error, missing final_article, rejected fetch) it emits exactly one  *)
(* prompt error message and leaves the state unchanged; in every outcome    *)
(* the last value of isGeneratingFinal is false when the call returns.      *)
NoOriginalContent(s) ==
  /\ s.originalContent \in {"", " "}
  /\ \A i \in 1..Len(s.paragraphEdits) : s.paragraphEdits[i].original \in {"", " "}

C13_FinalArticleOutcomes ==
  [][/\ op'.name = "generateFinalArticle" /\ Decided(state.paragraphEdits) =>
          /\ state' = state
          /\ IF NoOriginalContent(state)
             THEN /\ out' = <<GeneratingEvt(TRUE), Msg("prompt", "failed_final"),
                              GeneratingEvt(FALSE)>>
                  /\ isGeneratingFinal' = FALSE
                  /\ pendingFinal' = pendingFinal
             ELSE /\ out' = <<GeneratingEvt(TRUE)>>
                  /\ pendingFinal' = pendingFinal + 1
     /\ op'.name = "finalResponse" =>
          /\ isGeneratingFinal' = FALSE
          /\ pendingFinal' = pendingFinal - 1
          /\ IF op'.arg = "ok"
             THEN /\ out' = <<Msg("result", "final_article"), StateEvt(DefaultState),
                              WorkflowCompletedEvt, GeneratingEvt(FALSE)>>
                  /\ state' = DefaultState
                  /\ threadId' = "null"
             ELSE /\ out' = <<Msg("prompt", "failed_final"), GeneratingEvt(FALSE)>>
                  /\ state' = state
                  /\ threadId' = threadId]_vars

C13_Witness ==
  /\ op.name = "finalResponse"
  /\ op.arg = "no_final_article"
  /\ Len(state.paragraphEdits) = 2
  /\ state.originalContent = "doc"
  /\ out = <<Msg("prompt", "failed_final"), GeneratingEvt(FALSE)>>
  /\ ~isGeneratingFinal

(* C14: nextEditor sends no request and changes no state when threadId is   *)
(* null (it emits one prompt that no thread id is available) or when not    *)
(* all paragraph edits of the state are decided (it emits one prompt asking *)
(* to approve or reject all paragraph edits).                               *)
C14_NextEditorGuards ==
  [][op'.name = "nextEditor" =>
       /\ threadId = "null" =>
            UNCHANGED svcVars /\ out' = <<Msg("prompt", "no_thread_id")>>
       /\ threadId # "null" /\ ~Decided(state.paragraphEdits) =>
            UNCHANGED svcVars /\ out' = <<Msg("prompt", "approve_or_reject_all")>>]_vars

C14_Witness ==
  /\ op.name = "nextEditor"
  /\ threadId = "t1"
  /\ ~Decided(state.paragraphEdits)
  /\ out = <<Msg("prompt", "approve_or_reject_all")>>
  /\ pendingNext = 0

(* C15: when extracting the uploaded file's text fails or yields blank      *)
(* content, or the edit stream signals an error, the service emits exactly  *)
(* one result error message and then resets to the default idle state and   *)
(* emits workflowCompleted; with blank content the step does not become     *)
(* processing, no processing prompt is emitted and no stream is opened.     *)
ContentFailure(o) == o.name = "extractResolved" /\ o.arg \in {"throw", "", " "}

C15_FailureResets ==
  [][ContentFailure(op') \/ op'.name = "streamError" =>
       LET n == Len(out')
           text == IF op'.name = "streamError" THEN "error_editing" ELSE "error_processing"
       IN  /\ Messages(out') = <<Msg("result", text)>>
           /\ n >= 3
           /\ out'[n - 2] = Msg("result", text)
           /\ out'[n - 1] = StateEvt(DefaultState)
           /\ out'[n] = WorkflowCompletedEvt
           /\ state' = DefaultState
           /\ ContentFailure(op') =>
                /\ \A i \in 1..n : out'[i].kind = "state" => out'[i].type = state.step
                                                              \/ i = n - 1
                /\ streams' = streams]_vars

C15_Witness ==
  /\ op.name = "extractResolved"
  /\ op.arg = " "
  /\ state = DefaultState
  /\ out = <<[kind |-> "state", type |-> "awaiting_content", text |-> ""],
             Msg("result", "error_processing"), StateEvt(DefaultState),
             WorkflowCompletedEvt>>

(* C16: in step awaiting_editors a typed input that lists only numbers in   *)
(* 1..5, single or as ranges a-b with a <= b, separated by commas,          *)
(* semicolons or spaces, replaces selectedEditors by the catalogue editors  *)
(* at exactly the listed positions, in catalogue order, with                *)
(* brand-alignment appended when position 5 is not listed; the previous     *)
(* selection is not merged in, the step stays awaiting_editors and one      *)
(* confirmation prompt is emitted.                                          *)
Value(c) == CASE c = "1" -> 1 [] c = "2" -> 2 [] c = "5" -> 5 [] OTHER -> 0

IsNumber(c) == Value(c) \in 1..5

ListsOnlyNumbers(text) ==
  /\ \E i \in 1..Len(text) : IsNumber(text[i])
  /\ \A i \in 1..Len(text) :
       /\ IsNumber(text[i]) /\ i > 1 => ~IsNumber(text[i - 1])
       /\ text[i] = "-" =>
            /\ i > 1 /\ i < Len(text)
            /\ IsNumber(text[i - 1]) /\ IsNumber(text[i + 1])
            /\ Value(text[i - 1]) <= Value(text[i + 1])
            /\ i + 2 <= Len(text) => text[i + 2] # "-"

Listed(text) ==
  {m \in 1..5 :
     \E i \in 1..Len(text) :
       \/ Value(text[i]) = m
       \/ text[i] = "-" /\ Value(text[i - 1]) <= m /\ m <= Value(text[i + 1])}

CatalogueOrder == <<"development", "content", "line", "copy", "brand-alignment">>

EditorsAt(positions) ==
  LET picked == SelectSeq(<<1, 2, 3, 4, 5>>, LAMBDA m : m \in positions)
  IN  PlusBrand([k \in 1..Len(picked) |-> CatalogueOrder[picked[k]]])

C16_NumericSelection ==
  [][op'.name = "handleChatInput" /\ state.step = "awaiting_editors"
       /\ ListsOnlyNumbers(op'.arg.input) =>
       /\ state' = [state EXCEPT !.selectedEditors = EditorsAt(Listed(op'.arg.input))]
       /\ out' = <<StateEvt(state'), Msg("prompt", "selected_editors")>>
       /\ UNCHANGED <<threadId, isGeneratingFinal, pendingIntent,
                      pendingExtract, streams, pendingFinal, pendingNext>>]_vars

C16_Witness ==
  /\ op.name = "handleChatInput"
  /\ op.arg.input = <<"5", ";", "1", "-", "2">>
  /\ state.step = "awaiting_editors"
  /\ state.selectedEditors = <<"development", "content", "brand-alignment">>
  /\ out = <<StateEvt(state), Msg("prompt", "selected_editors")>>

(* C17: highlightAllFeedbacks only inserts span tags: for every paragraph   *)
(* and every list of feedback items, whether their issue and fix texts      *)
(* occur once, repeat or overlap, removing the tags from the returned       *)
(* original (edited) text gives exactly the tag-stripped original (edited)  *)
(* text of the paragraph.                                                   *)
C17_OnlyInsertsSpans ==
  op.name = "highlightAllFeedbacks" =>
    /\ stripHtmlSpans(out[1]) = stripHtmlSpans(op.arg.original)
    /\ stripHtmlSpans(out[2]) = stripHtmlSpans(op.arg.edited)

C17_Witness ==
  /\ op.name = "highlightAllFeedbacks"
  /\ op.arg.original = <<"a", "b">>
  /\ Len(op.arg.editorial_feedback) = 2
  /\ op.arg.editorial_feedback[1].issue = <<"a", "b">>
  /\ op.arg.editorial_feedback[2].issue = <<"b">>
  /\ stripHtmlSpans(out[1]) # <<"a", "b">>
====
